---- MODULE Spec2Model ----
(***************************************************************************)
(* Model of scripts/build_crosswalk.py: the batch job that reads the split  *)
(* ECO alias files, classifies every row into a canonical opening family    *)
(* and writes the crosswalk, the review list and the family table.          *)
(*                                                                          *)
(* A Python str is a sequence of characters; a character is a one-character *)
(* TLA+ string, except the characters beyond Latin-1, which are written by    *)
(* code point: "U+0301", "U+0308" (combining marks), "U+2019" (right quote), *)
(* "U+FF14" (fullwidth 4), and the grave accent, written "U+0060".  A confidence is held in hundredths (0.85 is 85). *)
(***************************************************************************)
EXTENDS Integers, Sequences, FiniteSets, TLC

VARIABLES files, rows, idx, crosswalk, review, families,
          cw_file, rv_file, fam_file, pc

vars == <<files, rows, idx, crosswalk, review, families,
          cw_file, rv_file, fam_file, pc>>

----------------------------------------------------------------------------
(* Characters *)

LowerLetters ==
  <<"a","b","c","d","e","f","g","h","i","j","k","l","m",
    "n","o","p","q","r","s","t","u","v","w","x","y","z","á","é","ü">>

UpperLetters ==
  <<"A","B","C","D","E","F","G","H","I","J","K","L","M",
    "N","O","P","Q","R","S","T","U","V","W","X","Y","Z","Á","É","Ü">>

DigitChars == <<"0","1","2","3","4","5","6","7","8","9">>

Range(f) == {f[i] : i \in DOMAIN f}

\* [A-Za-z0-9]
AsciiAlnum ==
  {LowerLetters[i] : i \in 1..26} \cup {UpperLetters[i] : i \in 1..26}
    \cup Range(DigitChars)

\* \d
Digit == Range(DigitChars)

\* \s, and what str.strip() removes
WhiteSpace == {" ", "\t"}

\* the characters of the model
Alphabet ==
  Range(LowerLetters) \cup Range(UpperLetters) \cup Range(DigitChars)
    \cup {" ", "\t", "-", "'", "´", "#", "/", ":", ",", ".", "_", "?",
          "U+0060", "U+2019", "U+0301", "U+0308", "U+FF14"}

\* \w of a str pattern: alphanumeric characters and the underscore
WordChar == Range(LowerLetters) \cup Range(UpperLetters) \cup Digit \cup {"_"}

\* ord(c) for the characters a family key is made of: [a-z0-9-]
Ord(c) ==
  IF c = "-" THEN 45
  ELSE IF c \in Digit THEN 48 + (CHOOSE i \in 1..10 : DigitChars[i] = c) - 1
  ELSE 96 + (CHOOSE i \in 1..26 : LowerLetters[i] = c)

\* str.lower() and str.upper(), one character
LowerChar(c) ==
  IF \E i \in DOMAIN UpperLetters : UpperLetters[i] = c
    THEN LowerLetters[CHOOSE i \in DOMAIN UpperLetters : UpperLetters[i] = c]
    ELSE c

UpperChar(c) ==
  IF \E i \in DOMAIN LowerLetters : LowerLetters[i] = c
    THEN UpperLetters[CHOOSE i \in DOMAIN LowerLetters : LowerLetters[i] = c]
    ELSE c

----------------------------------------------------------------------------
(* str methods *)

lower(s) == [i \in 1..Len(s) |-> LowerChar(s[i])]

upper(s) == [i \in 1..Len(s) |-> UpperChar(s[i])]

\* s.strip(chars)
StripChars(s, chars) ==
  LET keep == {i \in 1..Len(s) : s[i] \notin chars}
  IN  IF keep = {} THEN <<>>
      ELSE SubSeq(s, CHOOSE i \in keep : \A j \in keep : i <= j,
                     CHOOSE i \in keep : \A j \in keep : j <= i)

\* s.strip()
strip(s) == StripChars(s, WhiteSpace)

\* s[p:].startswith(t), p counted from 1
StartsAt(s, t, p) ==
  /\ p + Len(t) - 1 <= Len(s)
  /\ \A k \in 1..Len(t) : s[p + k - 1] = t[k]

\* t in s
Contains(s, t) == \E p \in 1..(Len(s) + 1) : StartsAt(s, t, p)

\* s.replace(old, new): left to right, occurrences that do not overlap
RECURSIVE ReplaceFrom(_, _, _, _)
ReplaceFrom(s, old, new, p) ==
  IF p > Len(s) THEN <<>>
  ELSE IF StartsAt(s, old, p)
    THEN new \o ReplaceFrom(s, old, new, p + Len(old))
    ELSE <<s[p]>> \o ReplaceFrom(s, old, new, p + 1)

replace(s, old, new) == ReplaceFrom(s, old, new, 1)

\* s.split(sep), sep one character
RECURSIVE SplitFrom(_, _, _, _)
SplitFrom(s, sep, p, cur) ==
  IF p > Len(s) THEN <<cur>>
  ELSE IF s[p] = sep
    THEN <<cur>> \o SplitFrom(s, sep, p + 1, <<>>)
    ELSE SplitFrom(s, sep, p + 1, Append(cur, s[p]))

split(s, sep) == SplitFrom(s, sep, 1, <<>>)

\* s.capitalize()
capitalize(s) ==
  [i \in 1..Len(s) |-> IF i = 1 THEN UpperChar(s[i]) ELSE LowerChar(s[i])]

\* sep.join(parts)
RECURSIVE join(_, _)
join(sep, parts) ==
  IF parts = <<>> THEN <<>>
  ELSE IF Len(parts) = 1 THEN parts[1]
  ELSE parts[1] \o sep \o join(sep, Tail(parts))

\* a < b for two str, by code point
RECURSIVE StrLess(_, _)
StrLess(a, b) ==
  IF b = <<>> THEN FALSE
  ELSE IF a = <<>> THEN TRUE
  ELSE IF a[1] = b[1] THEN StrLess(Tail(a), Tail(b))
  ELSE Ord(a[1]) < Ord(b[1])

\* sorted(S) for a set of str
RECURSIVE sorted(_)
sorted(S) ==
  IF S = {} THEN <<>>
  ELSE LET m == CHOOSE x \in S : \A y \in S \ {x} : StrLess(x, y)
       IN  <<m>> \o sorted(S \ {m})

----------------------------------------------------------------------------
(* unicodedata.normalize *)

\* the canonical decompositions of the characters of the model
Decomposition(c) ==
  CASE c = "á" -> <<"a", "U+0301">>
    [] c = "é" -> <<"e", "U+0301">>
    [] c = "ü" -> <<"u", "U+0308">>
    [] c = "Á" -> <<"A", "U+0301">>
    [] c = "É" -> <<"E", "U+0301">>
    [] c = "Ü" -> <<"U", "U+0308">>
    [] c = "´" -> <<" ", "U+0301">>
    [] c = "U+FF14" -> <<"4">>
    [] OTHER -> <<c>>

Composed == {"á", "é", "ü", "Á", "É", "Ü"}

\* unicodedata.normalize("NFKD", s)
RECURSIVE NFKD(_)
NFKD(s) == IF s = <<>> THEN <<>> ELSE Decomposition(s[1]) \o NFKD(Tail(s))

\* canonical composition of a decomposed str
RECURSIVE Compose(_)
Compose(s) ==
  IF Len(s) < 2 THEN s
  ELSE IF \E c \in Composed : Decomposition(c) = <<s[1], s[2]>>
    THEN <<CHOOSE c \in Composed : Decomposition(c) = <<s[1], s[2]>> >>
           \o Compose(SubSeq(s, 3, Len(s)))
    ELSE <<s[1]>> \o Compose(Tail(s))

\* unicodedata.normalize("NFKC", s)
NFKC(s) == Compose(NFKD(s))

normalize_text(value) == strip(NFKC(value))

----------------------------------------------------------------------------
(* re *)

\* A pattern is a sequence of alternatives (the branches of |); an
\* alternative is a sequence of items; an item is a set of characters with
\* a quantifier: "1" exactly one, "?" at most one, "*" any number, "+" at
\* least one; the item with quantifier "b" is \b.

\* \b at position p of s (between s[p-1] and s[p])
AtBoundary(s, p) ==
  LET before == p > 1 /\ p - 1 <= Len(s) /\ s[p - 1] \in WordChar
      after  == p >= 1 /\ p <= Len(s) /\ s[p] \in WordChar
  IN  before # after

\* the positions where a match of alt[j..] that starts at p can end
RECURSIVE Ends(_, _, _, _)
Ends(alt, j, s, p) ==
  IF j > Len(alt) THEN {p}
  ELSE LET it   == alt[j]
           here == p <= Len(s) /\ s[p] \in it.set
       IN  CASE it.q = "b" ->
                  IF AtBoundary(s, p) THEN Ends(alt, j + 1, s, p) ELSE {}
             [] it.q = "1" ->
                  IF here THEN Ends(alt, j + 1, s, p + 1) ELSE {}
             [] it.q = "?" ->
                  Ends(alt, j + 1, s, p)
                    \cup (IF here THEN Ends(alt, j + 1, s, p + 1) ELSE {})
             [] it.q = "*" ->
                  Ends(alt, j + 1, s, p)
                    \cup (IF here THEN Ends(alt, j, s, p + 1) ELSE {})
             [] it.q = "+" ->
                  IF here
                    THEN Ends(alt, j + 1, s, p + 1) \cup Ends(alt, j, s, p + 1)
                    ELSE {}

\* bool(re.match(pattern, s))
re_match(pattern, s) ==
  \E a \in DOMAIN pattern : Ends(pattern[a], 1, s, 1) # {}

\* bool(re.search(pattern, s))
re_search(pattern, s) ==
  \E a \in DOMAIN pattern : \E p \in 1..(Len(s) + 1) :
    Ends(pattern[a], 1, s, p) # {}

\* re.sub(pattern, repl, s) for a pattern of one alternative that matches no
\* empty string and whose quantifiers are greedy: the leftmost match, as
\* long as it can be
RECURSIVE SubFrom(_, _, _, _)
SubFrom(alt, repl, s, p) ==
  IF p > Len(s) THEN <<>>
  ELSE LET e == Ends(alt, 1, s, p)
       IN  IF e # {}
             THEN repl \o SubFrom(alt, repl, s, CHOOSE q \in e : \A x \in e : x <= q)
             ELSE <<s[p]>> \o SubFrom(alt, repl, s, p + 1)

re_sub(alt, repl, s) == SubFrom(alt, repl, s, 1)

\* the pieces patterns are written with
Bnd == << [set |-> {}, q |-> "b"] >>
Lit(w) == [i \in 1..Len(w) |-> [set |-> {w[i]}, q |-> "1"]]
One(S) == << [set |-> S, q |-> "1"] >>
Opt(S) == << [set |-> S, q |-> "?"] >>
Star(S) == << [set |-> S, q |-> "*"] >>
Plus(S) == << [set |-> S, q |-> "+"] >>

----------------------------------------------------------------------------
(* acceptance_status *)

acceptance_status(name) ==
  LET n == lower(name)
  IN  IF Contains(n, <<"a","c","c","e","p","t","e","d">>) THEN "accepted"
      ELSE IF Contains(n, <<"d","e","c","l","i","n","e","d">>) THEN "declined"
      ELSE "neutral"

----------------------------------------------------------------------------
(* FAMILY_RULES, FAMILY_SYNONYMS, canonical_family *)

\* the family keys the rules name
K_sicilian_defense == <<"s","i","c","i","l","i","a","n","-","d","e","f","e","n","s","e">>
K_french_defense == <<"f","r","e","n","c","h","-","d","e","f","e","n","s","e">>
K_caro_kann_defense == <<"c","a","r","o","-","k","a","n","n","-","d","e","f","e","n","s","e">>
K_scandinavian_defense == <<"s","c","a","n","d","i","n","a","v","i","a","n","-","d","e","f","e","n","s","e">>
K_italian_game == <<"i","t","a","l","i","a","n","-","g","a","m","e">>
K_ruy_lopez == <<"r","u","y","-","l","o","p","e","z">>
K_vienna_game == <<"v","i","e","n","n","a","-","g","a","m","e">>
K_scotch_game == <<"s","c","o","t","c","h","-","g","a","m","e">>
K_two_knights_defense == <<"t","w","o","-","k","n","i","g","h","t","s","-","d","e","f","e","n","s","e">>
K_four_knights_game == <<"f","o","u","r","-","k","n","i","g","h","t","s","-","g","a","m","e">>
K_philidor_defense == <<"p","h","i","l","i","d","o","r","-","d","e","f","e","n","s","e">>
K_petrov_defense == <<"p","e","t","r","o","v","-","d","e","f","e","n","s","e">>
K_pirc_modern == <<"p","i","r","c","-","m","o","d","e","r","n">>
K_alekhine_defense == <<"a","l","e","k","h","i","n","e","-","d","e","f","e","n","s","e">>
K_dutch_defense == <<"d","u","t","c","h","-","d","e","f","e","n","s","e">>
K_benoni_defense == <<"b","e","n","o","n","i","-","d","e","f","e","n","s","e">>
K_benko_gambit == <<"b","e","n","k","o","-","g","a","m","b","i","t">>
K_grunfeld_defense == <<"g","r","u","n","f","e","l","d","-","d","e","f","e","n","s","e">>
K_nimzo_indian_defense == <<"n","i","m","z","o","-","i","n","d","i","a","n","-","d","e","f","e","n","s","e">>
K_bogo_indian_defense == <<"b","o","g","o","-","i","n","d","i","a","n","-","d","e","f","e","n","s","e">>
K_queens_indian_defense == <<"q","u","e","e","n","s","-","i","n","d","i","a","n","-","d","e","f","e","n","s","e">>
K_kings_indian_defense == <<"k","i","n","g","s","-","i","n","d","i","a","n","-","d","e","f","e","n","s","e">>
K_slav_defense == <<"s","l","a","v","-","d","e","f","e","n","s","e">>
K_semi_slav_defense == <<"s","e","m","i","-","s","l","a","v","-","d","e","f","e","n","s","e">>
K_queens_gambit == <<"q","u","e","e","n","s","-","g","a","m","b","i","t">>
K_catalan_opening == <<"c","a","t","a","l","a","n","-","o","p","e","n","i","n","g">>
K_english_opening == <<"e","n","g","l","i","s","h","-","o","p","e","n","i","n","g">>
K_reti_opening == <<"r","e","t","i","-","o","p","e","n","i","n","g">>
K_birds_opening == <<"b","i","r","d","s","-","o","p","e","n","i","n","g">>
K_london_system == <<"l","o","n","d","o","n","-","s","y","s","t","e","m">>
K_colle_system == <<"c","o","l","l","e","-","s","y","s","t","e","m">>
K_trompowsky_attack == <<"t","r","o","m","p","o","w","s","k","y","-","a","t","t","a","c","k">>
K_veresov_opening == <<"v","e","r","e","s","o","v","-","o","p","e","n","i","n","g">>
K_kings_gambit == <<"k","i","n","g","s","-","g","a","m","b","i","t">>
K_center_game == <<"c","e","n","t","e","r","-","g","a","m","e">>
K_open_games == <<"o","p","e","n","-","g","a","m","e","s">>

FAMILY_RULES == <<
  \* \bsicilian\b
  [pattern |-> << Bnd \o Lit(<<"s","i","c","i","l","i","a","n">>) \o Bnd >>,
   fam |-> K_sicilian_defense],
  \* \bfrench\b
  [pattern |-> << Bnd \o Lit(<<"f","r","e","n","c","h">>) \o Bnd >>,
   fam |-> K_french_defense],
  \* \bcaro[-\s]?kann\b
  [pattern |-> << Bnd \o Lit(<<"c","a","r","o">>) \o Opt({"-"} \cup WhiteSpace) \o Lit(<<"k","a","n","n">>) \o Bnd >>,
   fam |-> K_caro_kann_defense],
  \* \bscandinavian\b|\bcenter\s+counter\b
  [pattern |-> << Bnd \o Lit(<<"s","c","a","n","d","i","n","a","v","i","a","n">>) \o Bnd,
                  Bnd \o Lit(<<"c","e","n","t","e","r">>) \o Plus(WhiteSpace) \o Lit(<<"c","o","u","n","t","e","r">>) \o Bnd >>,
   fam |-> K_scandinavian_defense],
  \* \bitalian\b|\bgiuoco\b
  [pattern |-> << Bnd \o Lit(<<"i","t","a","l","i","a","n">>) \o Bnd,
                  Bnd \o Lit(<<"g","i","u","o","c","o">>) \o Bnd >>,
   fam |-> K_italian_game],
  \* \bruy\s*lopez\b|\besp[aá]nol[a]?\b
  [pattern |-> << Bnd \o Lit(<<"r","u","y">>) \o Star(WhiteSpace) \o Lit(<<"l","o","p","e","z">>) \o Bnd,
                  Bnd \o Lit(<<"e","s","p">>) \o One({"a", "á"}) \o Lit(<<"n","o","l">>) \o Opt({"a"}) \o Bnd >>,
   fam |-> K_ruy_lopez],
  \* \bvienna\b
  [pattern |-> << Bnd \o Lit(<<"v","i","e","n","n","a">>) \o Bnd >>,
   fam |-> K_vienna_game],
  \* \bscotch\b
  [pattern |-> << Bnd \o Lit(<<"s","c","o","t","c","h">>) \o Bnd >>,
   fam |-> K_scotch_game],
  \* \btwo\s+knights\b
  [pattern |-> << Bnd \o Lit(<<"t","w","o">>) \o Plus(WhiteSpace) \o Lit(<<"k","n","i","g","h","t","s">>) \o Bnd >>,
   fam |-> K_two_knights_defense],
  \* \bfour\s+knights\b
  [pattern |-> << Bnd \o Lit(<<"f","o","u","r">>) \o Plus(WhiteSpace) \o Lit(<<"k","n","i","g","h","t","s">>) \o Bnd >>,
   fam |-> K_four_knights_game],
  \* \bphilidor\b
  [pattern |-> << Bnd \o Lit(<<"p","h","i","l","i","d","o","r">>) \o Bnd >>,
   fam |-> K_philidor_defense],
  \* \bpetrov\b|\brussian\b
  [pattern |-> << Bnd \o Lit(<<"p","e","t","r","o","v">>) \o Bnd,
                  Bnd \o Lit(<<"r","u","s","s","i","a","n">>) \o Bnd >>,
   fam |-> K_petrov_defense],
  \* \bpirc\b|\bmodern\s+defense\b|\bmodern\b
  [pattern |-> << Bnd \o Lit(<<"p","i","r","c">>) \o Bnd,
                  Bnd \o Lit(<<"m","o","d","e","r","n">>) \o Plus(WhiteSpace) \o Lit(<<"d","e","f","e","n","s","e">>) \o Bnd,
                  Bnd \o Lit(<<"m","o","d","e","r","n">>) \o Bnd >>,
   fam |-> K_pirc_modern],
  \* \balekhine?\b|\balekhine?'?s\b|\balekhine\b|\balekhine\b|\balekhine\b|\balekhine\b
  [pattern |-> << Bnd \o Lit(<<"a","l","e","k","h","i","n">>) \o Opt({"e"}) \o Bnd,
                  Bnd \o Lit(<<"a","l","e","k","h","i","n">>) \o Opt({"e"}) \o Opt({"'"}) \o Lit(<<"s">>) \o Bnd,
                  Bnd \o Lit(<<"a","l","e","k","h","i","n","e">>) \o Bnd,
                  Bnd \o Lit(<<"a","l","e","k","h","i","n","e">>) \o Bnd,
                  Bnd \o Lit(<<"a","l","e","k","h","i","n","e">>) \o Bnd,
                  Bnd \o Lit(<<"a","l","e","k","h","i","n","e">>) \o Bnd >>,
   fam |-> K_alekhine_defense],
  \* \bdutch\b
  [pattern |-> << Bnd \o Lit(<<"d","u","t","c","h">>) \o Bnd >>,
   fam |-> K_dutch_defense],
  \* \bbenoni\b
  [pattern |-> << Bnd \o Lit(<<"b","e","n","o","n","i">>) \o Bnd >>,
   fam |-> K_benoni_defense],
  \* \bold\s+benoni\b
  [pattern |-> << Bnd \o Lit(<<"o","l","d">>) \o Plus(WhiteSpace) \o Lit(<<"b","e","n","o","n","i">>) \o Bnd >>,
   fam |-> K_benoni_defense],
  \* \bmodern\s+benoni\b
  [pattern |-> << Bnd \o Lit(<<"m","o","d","e","r","n">>) \o Plus(WhiteSpace) \o Lit(<<"b","e","n","o","n","i">>) \o Bnd >>,
   fam |-> K_benoni_defense],
  \* \bbenko\b|\bvolga\b
  [pattern |-> << Bnd \o Lit(<<"b","e","n","k","o">>) \o Bnd,
                  Bnd \o Lit(<<"v","o","l","g","a">>) \o Bnd >>,
   fam |-> K_benko_gambit],
  \* \bgr[uü]nfeld\b
  [pattern |-> << Bnd \o Lit(<<"g","r">>) \o One({"u", "ü"}) \o Lit(<<"n","f","e","l","d">>) \o Bnd >>,
   fam |-> K_grunfeld_defense],
  \* \bnimzo[-\s]?indian\b
  [pattern |-> << Bnd \o Lit(<<"n","i","m","z","o">>) \o Opt({"-"} \cup WhiteSpace) \o Lit(<<"i","n","d","i","a","n">>) \o Bnd >>,
   fam |-> K_nimzo_indian_defense],
  \* \bbogo[-\s]?indian\b
  [pattern |-> << Bnd \o Lit(<<"b","o","g","o">>) \o Opt({"-"} \cup WhiteSpace) \o Lit(<<"i","n","d","i","a","n">>) \o Bnd >>,
   fam |-> K_bogo_indian_defense],
  \* \bqueen'?s?\s+indian\b
  [pattern |-> << Bnd \o Lit(<<"q","u","e","e","n">>) \o Opt({"'"}) \o Opt({"s"}) \o Plus(WhiteSpace) \o Lit(<<"i","n","d","i","a","n">>) \o Bnd >>,
   fam |-> K_queens_indian_defense],
  \* \bking'?s?[-\s]?indian\b
  [pattern |-> << Bnd \o Lit(<<"k","i","n","g">>) \o Opt({"'"}) \o Opt({"s"}) \o Opt({"-"} \cup WhiteSpace) \o Lit(<<"i","n","d","i","a","n">>) \o Bnd >>,
   fam |-> K_kings_indian_defense],
  \* \bslav\b
  [pattern |-> << Bnd \o Lit(<<"s","l","a","v">>) \o Bnd >>,
   fam |-> K_slav_defense],
  \* \bsemi[-\s]?slav\b
  [pattern |-> << Bnd \o Lit(<<"s","e","m","i">>) \o Opt({"-"} \cup WhiteSpace) \o Lit(<<"s","l","a","v">>) \o Bnd >>,
   fam |-> K_semi_slav_defense],
  \* \bqueen'?s?\s+gambit\b
  [pattern |-> << Bnd \o Lit(<<"q","u","e","e","n">>) \o Opt({"'"}) \o Opt({"s"}) \o Plus(WhiteSpace) \o Lit(<<"g","a","m","b","i","t">>) \o Bnd >>,
   fam |-> K_queens_gambit],
  \* \bcatalan\b
  [pattern |-> << Bnd \o Lit(<<"c","a","t","a","l","a","n">>) \o Bnd >>,
   fam |-> K_catalan_opening],
  \* \benglish\b
  [pattern |-> << Bnd \o Lit(<<"e","n","g","l","i","s","h">>) \o Bnd >>,
   fam |-> K_english_opening],
  \* \br[ée]ti\b|\breti\b
  [pattern |-> << Bnd \o Lit(<<"r">>) \o One({"é", "e"}) \o Lit(<<"t","i">>) \o Bnd,
                  Bnd \o Lit(<<"r","e","t","i">>) \o Bnd >>,
   fam |-> K_reti_opening],
  \* \bbird'?s?\b
  [pattern |-> << Bnd \o Lit(<<"b","i","r","d">>) \o Opt({"'"}) \o Opt({"s"}) \o Bnd >>,
   fam |-> K_birds_opening],
  \* \blondon\b
  [pattern |-> << Bnd \o Lit(<<"l","o","n","d","o","n">>) \o Bnd >>,
   fam |-> K_london_system],
  \* \bcolle\b
  [pattern |-> << Bnd \o Lit(<<"c","o","l","l","e">>) \o Bnd >>,
   fam |-> K_colle_system],
  \* \btrompowsky\b
  [pattern |-> << Bnd \o Lit(<<"t","r","o","m","p","o","w","s","k","y">>) \o Bnd >>,
   fam |-> K_trompowsky_attack],
  \* \bveresov\b|\bjobava\b
  [pattern |-> << Bnd \o Lit(<<"v","e","r","e","s","o","v">>) \o Bnd,
                  Bnd \o Lit(<<"j","o","b","a","v","a">>) \o Bnd >>,
   fam |-> K_veresov_opening],
  \* \bking'?s?\s+gambit\b
  [pattern |-> << Bnd \o Lit(<<"k","i","n","g">>) \o Opt({"'"}) \o Opt({"s"}) \o Plus(WhiteSpace) \o Lit(<<"g","a","m","b","i","t">>) \o Bnd >>,
   fam |-> K_kings_gambit],
  \* \bcenter\s+game\b
  [pattern |-> << Bnd \o Lit(<<"c","e","n","t","e","r">>) \o Plus(WhiteSpace) \o Lit(<<"g","a","m","e">>) \o Bnd >>,
   fam |-> K_center_game],
  \* \bscandinavian\b
  [pattern |-> << Bnd \o Lit(<<"s","c","a","n","d","i","n","a","v","i","a","n">>) \o Bnd >>,
   fam |-> K_scandinavian_defense]
>>

\* the ECO band fallbacks, in the order of the if statements
ECO_BANDS == <<
  \* B[2-9]\d
  [pattern |-> << Lit(<<"B">>) \o One({"2", "3", "4", "5", "6", "7", "8", "9"}) \o One(Digit) >>,
   fam |-> K_sicilian_defense, conf |-> 90],
  \* C0\d|C1\d
  [pattern |-> << Lit(<<"C","0">>) \o One(Digit),
                  Lit(<<"C","1">>) \o One(Digit) >>,
   fam |-> K_french_defense, conf |-> 90],
  \* B1\d
  [pattern |-> << Lit(<<"B","1">>) \o One(Digit) >>,
   fam |-> K_caro_kann_defense, conf |-> 85],
  \* B0[67-9]
  [pattern |-> << Lit(<<"B","0">>) \o One({"6", "7", "8", "9"}) >>,
   fam |-> K_pirc_modern, conf |-> 80],
  \* B0[0-5]
  [pattern |-> << Lit(<<"B","0">>) \o One({"0", "1", "2", "3", "4", "5"}) >>,
   fam |-> K_open_games, conf |-> 80],
  \* A8\d|A9\d
  [pattern |-> << Lit(<<"A","8">>) \o One(Digit),
                  Lit(<<"A","9">>) \o One(Digit) >>,
   fam |-> K_dutch_defense, conf |-> 90],
  \* A5[6-9]|A7\d
  [pattern |-> << Lit(<<"A","5">>) \o One({"6", "7", "8", "9"}),
                  Lit(<<"A","7">>) \o One(Digit) >>,
   fam |-> K_benoni_defense, conf |-> 85],
  \* D0\d|D3\d|D4\d|D6\d
  [pattern |-> << Lit(<<"D","0">>) \o One(Digit),
                  Lit(<<"D","3">>) \o One(Digit),
                  Lit(<<"D","4">>) \o One(Digit),
                  Lit(<<"D","6">>) \o One(Digit) >>,
   fam |-> K_queens_gambit, conf |-> 85],
  \* D1\d
  [pattern |-> << Lit(<<"D","1">>) \o One(Digit) >>,
   fam |-> K_slav_defense, conf |-> 85],
  \* D2\d|D5\d
  [pattern |-> << Lit(<<"D","2">>) \o One(Digit),
                  Lit(<<"D","5">>) \o One(Digit) >>,
   fam |-> K_queens_gambit, conf |-> 80],
  \* E0[0-9]
  [pattern |-> << Lit(<<"E","0">>) \o One({"0", "1", "2", "3", "4", "5", "6", "7", "8", "9"}) >>,
   fam |-> K_catalan_opening, conf |-> 80],
  \* E2\d
  [pattern |-> << Lit(<<"E","2">>) \o One(Digit) >>,
   fam |-> K_nimzo_indian_defense, conf |-> 85],
  \* E3\d
  [pattern |-> << Lit(<<"E","3">>) \o One(Digit) >>,
   fam |-> K_queens_indian_defense, conf |-> 85],
  \* E6\d
  [pattern |-> << Lit(<<"E","6">>) \o One(Digit) >>,
   fam |-> K_kings_indian_defense, conf |-> 85],
  \* D7\d|D8\d|D9\d
  [pattern |-> << Lit(<<"D","7">>) \o One(Digit),
                  Lit(<<"D","8">>) \o One(Digit),
                  Lit(<<"D","9">>) \o One(Digit) >>,
   fam |-> K_grunfeld_defense, conf |-> 85]
>>

FAMILY_SYNONYMS == <<
  <<  <<"k","i","n","g"," ","s">>,  <<"k","i","n","g","s">>  >>,
  <<  <<"q","u","e","e","n"," ","s">>,  <<"q","u","e","e","n","s">>  >>,
  <<  <<"b","i","r","d"," ","s">>,  <<"b","i","r","d","s">>  >>,
  <<  <<"r","u","y"," ","l"," ","p","e","z">>,  <<"r","u","y"," ","l","o","p","e","z">>  >>,
  <<  <<"g","r"," ","n","f","e","l","d">>,  <<"g","r","u","n","f","e","l","d">>  >>
>>

\* for k, v in FAMILY_SYNONYMS.items(): n = n.replace(k, v)
RECURSIVE ApplySynonyms(_, _)
ApplySynonyms(n, i) ==
  IF i > Len(FAMILY_SYNONYMS) THEN n
  ELSE ApplySynonyms(replace(n, FAMILY_SYNONYMS[i][1], FAMILY_SYNONYMS[i][2]), i + 1)

\* the index of the first rule of rules from i on whose pattern is found
\* in n (re.search), 0 when there is none
RECURSIVE FirstSearch(_, _, _)
FirstSearch(rules, n, i) ==
  IF i > Len(rules) THEN 0
  ELSE IF re_search(rules[i].pattern, n) THEN i
  ELSE FirstSearch(rules, n, i + 1)

\* the same with re.match, for the ECO bands
RECURSIVE FirstMatch(_, _, _)
FirstMatch(rules, e, i) ==
  IF i > Len(rules) THEN 0
  ELSE IF re_match(rules[i].pattern, e) THEN i
  ELSE FirstMatch(rules, e, i + 1)

DutchPattern == << Bnd \o Lit(<<"d","u","t","c","h">>) \o Bnd >>
StauntonPattern == << Bnd \o Lit(<<"s","t","a","u","n","t","o","n">>) \o Bnd >>

\* the name as the rules see it
RuleName(name) == ApplySynonyms(lower(name), 1)

\* BandCode without upper()
BandCode_NoUpper(eco_code) == strip(eco_code)

\* the ECO code as the bands see it
BandCode(eco_code) == strip(upper(eco_code))

\* EcoFallback with the first band written B[1-9]\d
EcoFallback_WideSicilian(eco_code) ==
  LET eco   == BandCode(eco_code)
      bands == [ECO_BANDS EXCEPT
                  ![1].pattern = << Lit(<<"B">>)
                                      \o One({"1","2","3","4","5","6","7","8","9"})
                                      \o One(Digit) >>]
      b     == FirstMatch(bands, eco, 1)
  IN  IF b # 0 THEN <<bands[b].fam, bands[b].conf>>
      ELSE << <<>>, 0 >>

\* the ECO band fallbacks and the final return
EcoFallback(eco_code) ==
  LET eco == BandCode(eco_code)
      b   == FirstMatch(ECO_BANDS, eco, 1)
  IN  IF b # 0 THEN <<ECO_BANDS[b].fam, ECO_BANDS[b].conf>>
      ELSE << <<>>, 0 >>

\* canonical_family(name, eco_code): <<family key, confidence>>
canonical_family(name, eco_code) ==
  LET n == RuleName(name)
      r == FirstSearch(FAMILY_RULES, n, 1)
  IN  IF r # 0 THEN <<FAMILY_RULES[r].fam, 99>>
      ELSE IF re_search(DutchPattern, n) /\ re_search(StauntonPattern, n)
        THEN <<K_dutch_defense, 95>>
      ELSE EcoFallback(eco_code)

----------------------------------------------------------------------------
(* read_rows *)

\* A source file is named by what the * of INPUT_GLOB stands for.  A raw row
\* is what csv.DictReader yields: a mapping from the header's column names
\* to the fields.

FilePrefix == <<"S","p","l","i","t","C","h","e","s","s","E","C","O"," ","-"," ">>
FileSuffix == <<".","c","s","v">>

\* os.path.basename(path)
basename(f) == FilePrefix \o f \o FileSuffix

\* norm = {k: normalize_text(v) ...}; norm["__source_file"] = basename(path)
NormRow(r, f) ==
  [k \in DOMAIN r \cup {"__source_file"} |->
     IF k = "__source_file" THEN basename(f) ELSE normalize_text(r[k])]

\* the rows of the files of fs, file after file in the order order
RECURSIVE RowsOf(_, _)
RowsOf(fs, order) ==
  IF order = <<>> THEN <<>>
  ELSE LET f == order[1]
       IN  [i \in 1..Len(fs[f]) |-> NormRow(fs[f][i], f)]
             \o RowsOf(fs, Tail(order))

read_rows(fs) == RowsOf(fs, sorted(DOMAIN fs))

----------------------------------------------------------------------------
(* main: one row *)

\* r.get(k), where None and "" are both falsy
Get(r, k) == IF k \in DOMAIN r THEN r[k] ELSE <<>>

\* a or b
Or(a, b) == IF a # <<>> THEN a ELSE b

RowName(r) ==
  Or(Get(r, "Name"), Or(Get(r, "name"), Or(Get(r, "opening"), Get(r, "alias_name"))))

RowEco(r) == Or(Get(r, "eco"), Or(Get(r, "ECO"), Get(r, "eco_code")))

RowSlug(r) == Or(Get(r, "slug"), Get(r, "alias_slug"))

RowHint(r) ==
  Or(Get(r, "family name"), Or(Get(r, "family_name"), Get(r, "family")))

\* r.get("__source_file", "split")
RowSource(r) ==
  IF "__source_file" \in DOMAIN r THEN r["__source_file"]
  ELSE <<"s","p","l","i","t">>

NotApplicable == <<"#","N","/","A">>

\* 's\b
PossessivePattern == Lit(<<"'","s">>) \o Bnd

\* [^A-Za-z0-9]+
NonAlnumPattern == Plus(Alphabet \ AsciiAlnum)

\* the key made from a family hint
HintKey(fam_hint) ==
  LET n1 == NFKD(fam_hint)
      n2 == replace(replace(replace(n1, <<"U+2019">>, <<"'">>),
                            <<"U+0060">>, <<"'">>), <<"´">>, <<"'">>)
      n3 == re_sub(PossessivePattern, <<"s">>, n2)
      n4 == re_sub(NonAlnumPattern, <<"-">>, strip(n3))
      k1 == StripChars(lower(n4), {"-"})
      k2 == replace(k1, <<"-","s","-">>, <<"s","-">>)
      k3 == replace(k2, <<"-","s","-">>, <<"s","-">>)
  IN  replace(k3, <<"-","g","a","m","b","i","t","-","g","a","m","b","i","t">>,
                  <<"-","g","a","m","b","i","t">>)

\* if fam_hint and fam_hint.upper() != "#N/A"
HintUsable(fam_hint) == fam_hint # <<>> /\ upper(fam_hint) # NotApplicable

\* Resolve with the name and the ECO code tried before the hint
Resolve_NameFirst(name, eco, fam_hint) ==
  LET cf == canonical_family(name, eco)
  IN  IF cf[1] # <<>> THEN cf
      ELSE IF HintUsable(fam_hint) /\ HintKey(fam_hint) # <<>>
        THEN <<HintKey(fam_hint), 90>>
      ELSE cf

\* Resolve that keeps the hint's confidence when the hint gave no key
Resolve_KeepHintConf(name, eco, fam_hint) ==
  LET fam_key == IF HintUsable(fam_hint) THEN HintKey(fam_hint) ELSE <<>>
      conf    == IF HintUsable(fam_hint) THEN 90 ELSE 0
  IN  IF fam_key = <<>>
        THEN <<canonical_family(name, eco)[1],
               IF HintUsable(fam_hint) THEN conf ELSE canonical_family(name, eco)[2]>>
        ELSE <<fam_key, conf>>

\* fam_key, conf of a row: the hint first, canonical_family when the hint
\* gave no key
Resolve(name, eco, fam_hint) ==
  LET fam_key == IF HintUsable(fam_hint) THEN HintKey(fam_hint) ELSE <<>>
      conf    == IF HintUsable(fam_hint) THEN 90 ELSE 0
  IN  IF fam_key = <<>> THEN canonical_family(name, eco)
      ELSE <<fam_key, conf>>

\* Notes without lower()
Notes_CaseSensitive(name) ==
  IF re_search(DutchPattern, name) /\ re_search(StauntonPattern, name)
    THEN "inferred staunton under dutch"
    ELSE ""

\* notes
Notes(name) ==
  IF re_search(DutchPattern, lower(name)) /\ re_search(StauntonPattern, lower(name))
    THEN "inferred staunton under dutch"
    ELSE ""

\* NeedsReview with conf <= 0.85
NeedsReview_AtOrBelow(fam_key, conf) == fam_key = <<>> \/ conf <= 85

\* needs_review
NeedsReview(fam_key, conf) == fam_key = <<>> \/ conf < 85

\* f"{conf:.2f}"
Format2f(conf) ==
  <<DigitChars[(conf \div 100) + 1], ".",
    DigitChars[((conf \div 10) % 10) + 1], DigitChars[(conf % 10) + 1]>>

\* the crosswalk record of row r
CrosswalkRecord(r) ==
  LET name == RowName(r)
      res  == Resolve(name, RowEco(r), RowHint(r))
  IN  [source |-> RowSource(r),
       alias_name |-> name,
       alias_slug |-> RowSlug(r),
       eco_code |-> RowEco(r),
       canonical_family_key |-> res[1],
       acceptance_status |-> acceptance_status(name),
       confidence |-> Format2f(res[2]),
       needs_review |-> IF NeedsReview(res[1], res[2]) THEN "TRUE" ELSE "FALSE",
       notes |-> Notes(name)]

\* the review record of row r
ReviewRecord(r) ==
  [alias_name |-> RowName(r),
   alias_slug |-> RowSlug(r),
   eco_code |-> RowEco(r),
   reason |-> "low_confidence_or_unmatched"]

\* Count as families[fam_key] = 1
Count_Reset(fams, fam_key) ==
  [k \in DOMAIN fams \cup {fam_key} |-> IF k = fam_key THEN 1 ELSE fams[k]]

\* families[fam_key] = families.get(fam_key, 0) + 1
Count(fams, fam_key) ==
  [k \in DOMAIN fams \cup {fam_key} |->
     IF k = fam_key
       THEN (IF k \in DOMAIN fams THEN fams[k] ELSE 0) + 1
       ELSE fams[k]]

\* the rows of FamilyCanonical.csv after the header
FamilyRows(fams) ==
  LET keys == sorted(DOMAIN fams)
  IN  [i \in 1..Len(keys) |->
         <<keys[i],
           join(<<" ">>, [p \in 1..Len(split(keys[i], "-")) |->
                            capitalize(split(keys[i], "-")[p])]),
           "",
           "seeded from alias mapping frequency">>]

----------------------------------------------------------------------------
(* The inputs *)

\* the most rows a batch of several rows holds
MaxRows == 3

NameSamples ==
  { <<"D","u","t","c","h"," ","D","e","f","e","n","s","e",":"," ","S","t","a","u","n","t","o","n"," ","G","a","m","b","i","t">>,
   <<"S","e","m","i","-","S","l","a","v"," ","D","e","f","e","n","s","e">>,
   <<"M","o","d","e","r","n"," ","B","e","n","o","n","i">>,
   <<>>,
   <<"Z","z","z">>,
   <<"S","i","c","i","l","i","a","n"," ","D","e","f","e","n","s","e",","," ","N","a","j","d","o","r","f"," ","V","a","r","i","a","t","i","o","n">>,
   <<"S","e","m","i","s","l","a","v">>,
   <<"K","i","n","g","'","s"," ","G","a","m","b","i","t"," ","A","c","c","e","p","t","e","d">>,
   <<"Q","u","e","e","n","'","s"," ","G","a","m","b","i","t"," ","D","e","c","l","i","n","e","d">>,
   <<"S","t","a","u","n","t","o","n"," ","G","a","m","b","i","t">>,
   <<" ","G","r","u","U+0308","n","f","e","l","d"," ">>,
   <<"D","u","t","c","h"," ","K","i","n","g"," ","S","t","a","u","n","t","o","n">>,
   <<"B","i","r","d"," ","s"," ","O","p","e","n","i","n","g">> }

EcoSamples ==
  { <<>>,
   <<"B","4","4">>,
   <<"b","0","7">>,
   <<"A","8","5">>,
   <<"Z","9","9">>,
   <<" ","B","U+FF14","4">> }

HintSamples ==
  { <<>>,
   <<"#","N","/","A">>,
   <<"#","n","/","a">>,
   <<"Q","u","e","e","n","U+2019","s"," ","G","a","m","b","i","t">>,
   <<"Q","u","e","e","n","'","s"," ","G","a","m","b","i","t">>,
   <<"?","-","?">>,
   <<"K","i","n","g"," ","s"," ","I","n","d","i","a","n">>,
   <<"B","e","n","k","o"," ","G","a","m","b","i","t"," ","G","a","m","b","i","t">>,
   <<"G","r","ü","n","f","e","l","d">>,
   <<"S","i","c","i","l","i","a","n"," ","D","e","f","e","n","s","e">> }

\* every code of one letter A-E and up to two digits, and a few more
EcoCodes ==
  {<<l, a, b>> : l \in {"A","B","C","D","E"}, a \in Digit, b \in Digit}
    \cup {<<l, a>> : l \in {"A","B","C","D","E"}, a \in Digit}
    \cup {<<l>> : l \in {"A","B","C","D","E"}}
    \cup { <<>>, <<"Z","9","9">>, <<"b","4","4">>, <<"B","2","0","0">>,
           <<"B","x","4">>, <<"4","4">> }

\* <<name, eco, family hint>> of the rows a batch of one row is drawn from
WideRows ==
  (NameSamples \X EcoSamples \X HintSamples)
    \cup ({ <<>>, <<"Z","z","z">> } \X EcoCodes \X { <<>> })

\* <<name, eco, family hint>> of the rows a batch of several rows is drawn from
SmallRows ==
  { <<<<>>,
      <<"b","0","7">>, <<>>>>,
    <<<<"Z","z","z">>,
      <<"Z","9","9">>, <<"#","N","/","A">>>>,
    <<<<"D","u","t","c","h"," ","D","e","f","e","n","s","e",":"," ","S","t","a","u","n","t","o","n"," ","G","a","m","b","i","t">>,
      <<"A","8","3">>, <<>>>>,
    <<<<"Z","z","z">>,
      <<>>, <<"D","u","t","c","h"," ","D","e","f","e","n","s","e">>>> }

FileNames == { <<"a">>, <<"b">> }

\* the raw row with these fields under the header of file f
RawRow(f, t) ==
  IF f = <<"a">>
    THEN [Name |-> t[1], ECO |-> t[2], slug |-> <<"s","1">>, family |-> t[3]]
    ELSE [opening |-> t[1], eco_code |-> t[2], alias_slug |-> <<"s","2">>,
          family_name |-> t[3]]

SeqsUpTo(S, n) == UNION {[1..k -> S] : k \in 0..n}

\* the file sets the job is run on
Inputs ==
  { [f \in {<<"a">>} |-> <<RawRow(f, t)>>] : t \in WideRows }
    \cup { [f \in D |-> [i \in 1..Len(ts[f]) |-> RawRow(f, ts[f][i])]] :
             D \in SUBSET FileNames,
             ts \in {x \in [FileNames -> SeqsUpTo(SmallRows, MaxRows)] :
                       Len(x[<<"a">>]) + Len(x[<<"b">>]) <= MaxRows} }

----------------------------------------------------------------------------
(* main *)

Init ==
  /\ files \in Inputs
  /\ rows = <<>>
  /\ idx = 0
  /\ crosswalk = <<>>
  /\ review = <<>>
  /\ families = <<>>
  /\ cw_file = <<>>
  /\ rv_file = <<>>
  /\ fam_file = <<>>
  /\ pc = "start"

\* rows = read_rows(); crosswalk = []; review = []; families = {}
ReadRows ==
  /\ pc = "start"
  /\ rows' = read_rows(files)
  /\ idx' = 1
  /\ crosswalk' = <<>>
  /\ review' = <<>>
  /\ families' = <<>>
  /\ pc' = "loop"
  /\ UNCHANGED <<files, cw_file, rv_file, fam_file>>

\* ProcessRow with the review list fed by: if not fam_key
ProcessRow_UnmatchedOnly ==
  /\ pc = "loop"
  /\ idx <= Len(rows)
  /\ LET r   == rows[idx]
         rec == CrosswalkRecord(r)
     IN  /\ crosswalk' = Append(crosswalk, rec)
         /\ families' = IF rec.canonical_family_key # <<>>
                          THEN Count(families, rec.canonical_family_key)
                          ELSE families
         /\ review' = IF rec.canonical_family_key = <<>>
                        THEN Append(review, ReviewRecord(r))
                        ELSE review
  /\ idx' = idx + 1
  /\ UNCHANGED <<files, rows, cw_file, rv_file, fam_file, pc>>

\* one turn of: for r in rows
ProcessRow ==
  /\ pc = "loop"
  /\ idx <= Len(rows)
  /\ LET r   == rows[idx]
         rec == CrosswalkRecord(r)
     IN  /\ crosswalk' = Append(crosswalk, rec)
         /\ families' = IF rec.canonical_family_key # <<>>
                          THEN Count(families, rec.canonical_family_key)
                          ELSE families
         /\ review' = IF rec.needs_review = "TRUE"
                        THEN Append(review, ReviewRecord(r))
                        ELSE review
  /\ idx' = idx + 1
  /\ UNCHANGED <<files, rows, cw_file, rv_file, fam_file, pc>>

CrosswalkHeader ==
  <<"source", "alias_name", "alias_slug", "eco_code", "canonical_family_key",
    "acceptance_status", "confidence", "needs_review", "notes">>

ReviewHeader == <<"alias_name", "alias_slug", "eco_code", "reason">>

FamilyHeader ==
  <<"canonical_family_key", "canonical_family_name", "eco_group", "notes">>

\* csv.DictWriter(f, fieldnames).writerows(records)
DictRows(fieldnames, records) ==
  [i \in 1..Len(records) |->
     [c \in 1..Len(fieldnames) |-> records[i][fieldnames[c]]]]

\* the loop is over: write the three files
WriteOutputs ==
  /\ pc = "loop"
  /\ idx > Len(rows)
  /\ cw_file' = <<CrosswalkHeader>> \o DictRows(CrosswalkHeader, crosswalk)
  /\ rv_file' = <<ReviewHeader>> \o DictRows(ReviewHeader, review)
  /\ fam_file' = <<FamilyHeader>> \o FamilyRows(families)
  /\ pc' = "done"
  /\ UNCHANGED <<files, rows, idx, crosswalk, review, families>>

Next == ReadRows \/ ProcessRow \/ WriteOutputs

Spec == Init /\ [][Next]_vars

----------------------------------------------------------------------------
(* What the properties are written with *)

\* the rows the loop has been through
Done == 1..Len(crosswalk)

Str090 == <<"0",".","9","0">>
StrNote == "inferred staunton under dutch"

\* the number a confidence column stands for, in hundredths
DigitVal(d) == (CHOOSE i \in 1..10 : DigitChars[i] = d) - 1
ConfValue(c) == 100 * DigitVal(c[1]) + 10 * DigitVal(c[3]) + DigitVal(c[4])

\* the hint of row k gives a key
HintDecides(k) ==
  LET h == RowHint(rows[k])
  IN  h # <<>> /\ upper(h) # NotApplicable /\ HintKey(h) # <<>>

\* w is a whole word of s: an occurrence with no letter, digit or
\* underscore on either side
HasWord(s, w) ==
  \E p \in 1..Len(s) :
    /\ StartsAt(s, w, p)
    /\ (p = 1 \/ s[p - 1] \notin WordChar)
    /\ (p + Len(w) > Len(s) \/ s[p + Len(w)] \notin WordChar)

WordDutch == <<"d","u","t","c","h">>
WordStaunton == <<"s","t","a","u","n","t","o","n">>

\* no pattern of the main list is found in the name of row k
NoRuleMatches(k) == FirstSearch(FAMILY_RULES, RuleName(RowName(rows[k])), 1) = 0

\* row k was classified by the Dutch-Staunton special case of canonical_family
BySpecialCase(k) ==
  /\ ~HintDecides(k)
  /\ NoRuleMatches(k)
  /\ HasWord(RuleName(RowName(rows[k])), WordDutch)
  /\ HasWord(RuleName(RowName(rows[k])), WordStaunton)

\* row k was classified by the ECO bands or not at all
ByEcoTier(k) == ~HintDecides(k) /\ NoRuleMatches(k) /\ ~BySpecialCase(k)

----------------------------------------------------------------------------
(* C1 *)

\* C1: a row whose family hint is non-empty, is not "#N/A" in any case and
\* gives a non-empty key has that key at confidence 0.90, whatever its name
\* and ECO code; any other row has the key and confidence of
\* canonical_family(name, eco_code).
C1_HintPrecedence ==
  \A k \in Done :
    LET r   == rows[k]
        rec == crosswalk[k]
        cf  == canonical_family(RowName(r), RowEco(r))
    IN  IF HintDecides(k)
          THEN /\ rec.canonical_family_key = HintKey(RowHint(r))
               /\ rec.confidence = Str090
          ELSE /\ rec.canonical_family_key = cf[1]
               /\ ConfValue(rec.confidence) = cf[2]

\* a hint decided a row whose name alone gives another family
C1_Witness ==
  \E k \in Done :
    /\ HintDecides(k)
    /\ canonical_family(RowName(rows[k]), RowEco(rows[k]))[1]
         \notin {<<>>, HintKey(RowHint(rows[k]))}
    /\ crosswalk[k].canonical_family_key = HintKey(RowHint(rows[k]))

----------------------------------------------------------------------------
(* C2 *)

\* C2: a row with no usable hint whose name holds the words dutch and
\* staunton is classified dutch-defense at confidence 0.95.
C2_DutchStaunton095 ==
  \A k \in Done :
    ( /\ ~HintDecides(k)
      /\ HasWord(lower(RowName(rows[k])), WordDutch)
      /\ HasWord(lower(RowName(rows[k])), WordStaunton) )
    => /\ crosswalk[k].canonical_family_key = K_dutch_defense
       /\ crosswalk[k].confidence = <<"0",".","9","5">>

----------------------------------------------------------------------------
(* C3 *)

\* C3: needs_review is TRUE exactly when the key is empty or the confidence
\* is below 0.85: a keyed row at 0.80 is flagged, one at 0.85, 0.90 or 0.99
\* is not.
C3_NeedsReview ==
  \A k \in Done :
    LET rec == crosswalk[k]
        c   == ConfValue(rec.confidence)
    IN  /\ rec.needs_review \in {"TRUE", "FALSE"}
        /\ rec.needs_review = "TRUE" <=> (rec.canonical_family_key = <<>> \/ c < 85)
        /\ (rec.canonical_family_key # <<>> /\ c = 80) => rec.needs_review = "TRUE"
        /\ (rec.canonical_family_key # <<>> /\ c \in {85, 90, 99})
             => rec.needs_review = "FALSE"

\* a keyed row at exactly 0.85, which is not flagged
C3_Witness ==
  \E k \in Done :
    /\ crosswalk[k].canonical_family_key # <<>>
    /\ crosswalk[k].confidence = <<"0",".","8","5">>
    /\ crosswalk[k].needs_review = "FALSE"

----------------------------------------------------------------------------
(* C4 *)

\* C4: the confidence is 0.00 exactly when the key is empty, and otherwise
\* one of 0.80, 0.85, 0.90, 0.95, 0.99, also for a hint that gives no key.
C4_ConfidenceValues ==
  \A k \in Done :
    LET rec == crosswalk[k]
    IN  /\ rec.confidence = <<"0",".","0","0">> <=> rec.canonical_family_key = <<>>
        /\ rec.canonical_family_key # <<>> =>
             rec.confidence \in { <<"0",".","8","0">>, <<"0",".","8","5">>,
                                  <<"0",".","9","0">>, <<"0",".","9","5">>,
                                  <<"0",".","9","9">> }

\* a usable hint that gives no key, on a row the ECO bands then classify at
\* 0.80
C4_Witness ==
  \E k \in Done :
    /\ HintUsable(RowHint(rows[k]))
    /\ HintKey(RowHint(rows[k])) = <<>>
    /\ ByEcoTier(k)
    /\ crosswalk[k].canonical_family_key # <<>>
    /\ crosswalk[k].confidence = <<"0",".","8","0">>

----------------------------------------------------------------------------
(* C5 *)

\* a comes before b in the order of str: at the first place where they
\* differ a ends or holds the lesser character
LexLess(a, b) ==
  \E p \in 1..(Len(a) + 1) :
    /\ \A q \in 1..(p - 1) : q <= Len(b) /\ a[q] = b[q]
    /\ p <= Len(b)
    /\ (p > Len(a) \/ Ord(a[p]) < Ord(b[p]))

\* C5: the count of each family key is the number of crosswalk records with
\* that key, the counted keys are the non-empty keys of the crosswalk, and
\* the family table has one row per key, in ascending order.
C5_FamilyCounts ==
  /\ pc \in {"loop", "done"} =>
       /\ DOMAIN families = {crosswalk[k].canonical_family_key : k \in Done} \ {<<>>}
       /\ \A key \in DOMAIN families :
            families[key] =
              Cardinality({k \in Done : crosswalk[k].canonical_family_key = key})
  /\ pc = "done" =>
       /\ Len(fam_file) = 1 + Cardinality(DOMAIN families)
       /\ {fam_file[i][1] : i \in 2..Len(fam_file)} = DOMAIN families
       /\ \A i \in 2..Len(fam_file) : \A j \in 2..Len(fam_file) :
            i < j => LexLess(fam_file[i][1], fam_file[j][1])

\* the table is written with two keys that were first met in descending
\* order, one of them counted for rows of two files, a flagged row among them
C5_Witness ==
  /\ pc = "done"
  /\ Len(fam_file) >= 3
  /\ \E i \in Done : \E j \in Done :
       /\ i < j
       /\ crosswalk[i].canonical_family_key # <<>>
       /\ crosswalk[j].canonical_family_key # <<>>
       /\ LexLess(crosswalk[j].canonical_family_key, crosswalk[i].canonical_family_key)
  /\ \E i \in Done : \E j \in Done :
       /\ crosswalk[i].canonical_family_key = crosswalk[j].canonical_family_key
       /\ crosswalk[i].canonical_family_key # <<>>
       /\ crosswalk[i].source # crosswalk[j].source
       /\ families[crosswalk[i].canonical_family_key] >= 2
  /\ \E i \in Done :
       /\ crosswalk[i].canonical_family_key # <<>>
       /\ crosswalk[i].needs_review = "TRUE"

----------------------------------------------------------------------------
(* C6 *)

\* the review records of the flagged records among the first n of cw
RECURSIVE FlaggedOf(_, _)
FlaggedOf(cw, n) ==
  IF n = 0 THEN <<>>
  ELSE IF cw[n].needs_review = "TRUE"
    THEN Append(FlaggedOf(cw, n - 1),
                [alias_name |-> cw[n].alias_name,
                 alias_slug |-> cw[n].alias_slug,
                 eco_code |-> cw[n].eco_code,
                 reason |-> "low_confidence_or_unmatched"])
    ELSE FlaggedOf(cw, n - 1)

\* C6: the crosswalk holds one record per row, in the order of the rows, and
\* the review list holds the flagged rows, each once, in the same order, with
\* the reason low_confidence_or_unmatched.
C6_OnePerRow ==
  pc \in {"loop", "done"} =>
    /\ Len(crosswalk) = idx - 1
    /\ pc = "done" => Len(crosswalk) = Len(rows)
    /\ \A k \in Done :
         /\ crosswalk[k].alias_name = RowName(rows[k])
         /\ crosswalk[k].alias_slug = RowSlug(rows[k])
         /\ crosswalk[k].eco_code = RowEco(rows[k])
         /\ crosswalk[k].source = rows[k]["__source_file"]
    /\ review = FlaggedOf(crosswalk, Len(crosswalk))

\* three rows are through: a flagged one, one that is not, a flagged one
C6_Witness ==
  /\ pc = "done"
  /\ Len(crosswalk) = 3
  /\ crosswalk[1].needs_review = "TRUE"
  /\ crosswalk[2].needs_review = "FALSE"
  /\ crosswalk[3].needs_review = "TRUE"
  /\ crosswalk[3].canonical_family_key # <<>>
  /\ Len(review) = 2

----------------------------------------------------------------------------
(* C7 *)

\* C7 as stated: a record carries the note exactly when the Dutch-Staunton
\* special case of canonical_family classified it; any other record has no
\* note.
C7_NoteIffSpecialCase ==
  \A k \in Done :
    /\ crosswalk[k].notes = StrNote <=> BySpecialCase(k)
    /\ ~BySpecialCase(k) => crosswalk[k].notes = ""

\* C7 amended: a record carries the note exactly when its lower-cased name
\* holds the words dutch and staunton, whichever tier classified it; any
\* other record has no note.
C7_NoteIffNameDutchStaunton ==
  \A k \in Done :
    LET n    == lower(crosswalk[k].alias_name)
        both == HasWord(n, WordDutch) /\ HasWord(n, WordStaunton)
    IN  /\ both => crosswalk[k].notes = StrNote
        /\ ~both => crosswalk[k].notes = ""

\* a record with the note that a hint classified, into another family
C7_Witness ==
  \E k \in Done :
    /\ crosswalk[k].notes = StrNote
    /\ HintDecides(k)
    /\ crosswalk[k].canonical_family_key # K_dutch_defense

----------------------------------------------------------------------------
(* C8 *)

WordSemi == <<"s","e","m","i">>
WordSlav == <<"s","l","a","v">>
WordModern == <<"m","o","d","e","r","n">>
WordBenoni == <<"b","e","n","o","n","i">>

\* s holds a, one character of seps, b, with no letter, digit or underscore
\* on either side
HasPair(s, a, b, seps) == \E x \in seps : HasWord(s, a \o <<x>> \o b)

\* C8: the specific pattern is tried before the generic one it overlaps
\* with: with no hint, a name with semi-slav is classified semi-slav-defense
\* and a name with modern benoni is classified benoni-defense.
C8_SpecificFirst ==
  \A k \in Done :
    LET n == RuleName(RowName(rows[k]))
    IN  ~HintDecides(k) =>
          /\ HasPair(n, WordSemi, WordSlav, {"-"})
               => crosswalk[k].canonical_family_key = K_semi_slav_defense
          /\ HasPair(n, WordModern, WordBenoni, {" "})
               => crosswalk[k].canonical_family_key = K_benoni_defense

----------------------------------------------------------------------------
(* C9 *)

\* the family and confidence the bands give the code e (upper-cased and
\* trimmed): the letter and the two digits e begins with decide
BandOf(e) ==
  IF Len(e) < 3 \/ e[2] \notin Digit \/ e[3] \notin Digit THEN << <<>>, 0 >>
  ELSE LET l == e[1]
           n == 10 * DigitVal(e[2]) + DigitVal(e[3])
       IN  CASE l = "B" /\ n \in 20..99 -> <<K_sicilian_defense, 90>>
             [] l = "C" /\ n \in 0..19 -> <<K_french_defense, 90>>
             [] l = "B" /\ n \in 10..19 -> <<K_caro_kann_defense, 85>>
             [] l = "B" /\ n \in 6..9 -> <<K_pirc_modern, 80>>
             [] l = "B" /\ n \in 0..5 -> <<K_open_games, 80>>
             [] l = "A" /\ n \in 80..99 -> <<K_dutch_defense, 90>>
             [] l = "A" /\ n \in (56..59) \cup (70..79) -> <<K_benoni_defense, 85>>
             [] l = "D" /\ n \in (0..9) \cup (30..49) \cup (60..69)
                  -> <<K_queens_gambit, 85>>
             [] l = "D" /\ n \in 10..19 -> <<K_slav_defense, 85>>
             [] l = "D" /\ n \in (20..29) \cup (50..59) -> <<K_queens_gambit, 80>>
             [] l = "E" /\ n \in 0..9 -> <<K_catalan_opening, 80>>
             [] l = "E" /\ n \in 20..29 -> <<K_nimzo_indian_defense, 85>>
             [] l = "E" /\ n \in 30..39 -> <<K_queens_indian_defense, 85>>
             [] l = "E" /\ n \in 60..69 -> <<K_kings_indian_defense, 85>>
             [] l = "D" /\ n \in 70..99 -> <<K_grunfeld_defense, 85>>
             [] OTHER -> << <<>>, 0 >>

\* C9: a row with no usable hint and a name no pattern matches gets what the
\* band of its upper-cased, trimmed ECO code gives, and the unresolved result
\* when the code is in no band.
C9_EcoFallback ==
  \A k \in Done :
    (~HintDecides(k) /\ NoRuleMatches(k)) =>
      LET want == BandOf(strip(upper(crosswalk[k].eco_code)))
      IN  /\ crosswalk[k].canonical_family_key = want[1]
          /\ ConfValue(crosswalk[k].confidence) = want[2]

\* the row with no name, no hint and the code b44, classified
\* sicilian-defense at 0.90
C9_Witness ==
  \E k \in Done :
    /\ crosswalk[k].alias_name = <<>>
    /\ RowHint(rows[k]) = <<>>
    /\ crosswalk[k].eco_code = <<"b","4","4">>
    /\ crosswalk[k].canonical_family_key = K_sicilian_defense
    /\ crosswalk[k].confidence = Str090

----------------------------------------------------------------------------
(* C10 *)

\* the bands whose pattern matches the code e
BandsMatching(e) == {b \in DOMAIN ECO_BANDS : re_match(ECO_BANDS[b].pattern, e)}

\* C10: no code matches two bands, so a row the ECO tier classifies has the
\* family and confidence of every band its code matches: the order of the
\* bands decides nothing.
C10_BandsDisjoint ==
  \A k \in Done :
    LET e == strip(upper(RowEco(rows[k])))
    IN  /\ Cardinality(BandsMatching(e)) <= 1
        /\ ByEcoTier(k) =>
             \A b \in BandsMatching(e) :
               /\ crosswalk[k].canonical_family_key = ECO_BANDS[b].fam
               /\ ConfValue(crosswalk[k].confidence) = ECO_BANDS[b].conf

\* a row the band D1x classified, a letter that five bands share
C10_Witness ==
  \E k \in Done :
    /\ ByEcoTier(k)
    /\ crosswalk[k].eco_code = <<"D","1","5">>
    /\ crosswalk[k].canonical_family_key = K_slav_defense

====
